---- MODULE Spec2Model ----
(***************************************************************************)
(* A model of dockerhub_filter.py: natural_key, filter_names, filter_tags  *)
(* and main.  Strings are sequences of one-character strings, Python dicts *)
(* are functions whose DOMAIN is the set of keys present, Python lists are *)
(* sequences.                                                              *)
(***************************************************************************)
EXTENDS Integers, Sequences, FiniteSets, TLC

\* ------------------------------------------------------------ bounds
MaxNames == 3
MaxTags == 3
MaxRules == 2
MaxConfs == 2

\* ------------------------------------------------------------ strings

\* ord(c) for the characters the model uses
Ord ==
  ("$" :> 36) @@ ("(" :> 40) @@ ("." :> 46) @@ ("/" :> 47) @@
  ("0" :> 48) @@ ("1" :> 49) @@ ("2" :> 50) @@
  ("V" :> 86) @@ ("^" :> 94) @@
  ("a" :> 97) @@ ("b" :> 98) @@ ("e" :> 101) @@ ("l" :> 108) @@
  ("s" :> 115) @@ ("t" :> 116) @@ ("v" :> 118) @@ ("x" :> 120) @@ ("y" :> 121)

Digits == {"0", "1", "2"}

IsDigitChar(c) == c \in Digits

\* str.lower(), character by character
lower(s) == [i \in 1..Len(s) |-> IF s[i] = "V" THEN "v" ELSE s[i]]

\* str.isdigit(): non-empty and every character a digit
isdigit(s) == s # <<>> /\ \A i \in 1..Len(s) : IsDigitChar(s[i])

\* int(text) of a digit run
RECURSIVE int(_)
int(s) == IF s = <<>> THEN 0 ELSE 10 * int(SubSeq(s, 1, Len(s) - 1)) + (Ord[s[Len(s)]] - 48)

\* Python's < on str: lexicographic by code point, a proper prefix is smaller
StrLess(a, b) ==
  \E i \in 1..(Len(a) + 1) :
    /\ \A j \in 1..(i - 1) : j <= Len(b) /\ a[j] = b[j]
    /\ \/ i = Len(a) + 1 /\ Len(b) >= i
       \/ i <= Len(a) /\ i <= Len(b) /\ Ord[a[i]] < Ord[b[i]]

\* s.startswith(p)
startswith(s, p) == Len(p) <= Len(s) /\ SubSeq(s, 1, Len(p)) = p

\* ------------------------------------------------------------ re

\* The regular expressions of the model: literal characters, "." (any
\* character), a leading "^", a trailing "$"; a pattern holding "(" has an
\* unterminated group and re.compile raises re.error on it.
re_compiles(p) == \A i \in 1..Len(p) : p[i] # "("

ReBody(p) ==
  LET a == IF p # <<>> /\ p[1] = "^" THEN 2 ELSE 1
      b == IF p # <<>> /\ p[Len(p)] = "$" THEN Len(p) - 1 ELSE Len(p)
  IN  SubSeq(p, a, b)

\* re.compile(p).match(s): the pattern must match from the start of s, and
\* need not reach its end unless the pattern ends in "$"
re_match(p, s) ==
  LET body == ReBody(p)
  IN  /\ Len(body) <= Len(s)
      /\ \A i \in 1..Len(body) : body[i] = "." \/ body[i] = s[i]
      /\ (p # <<>> /\ p[Len(p)] = "$") => Len(s) = Len(body)

\* ------------------------------------------------------------ natural_key

\* re.split(r'(\d+)', s): text, digits, text, ..., text (odd places are text)
RECURSIVE SplitRuns(_, _, _, _)
SplitRuns(s, i, cur, inDigits) ==
  IF i > Len(s)
    THEN IF inDigits THEN <<cur, <<>>>> ELSE <<cur>>
    ELSE IF IsDigitChar(s[i]) = inDigits
      THEN SplitRuns(s, i + 1, Append(cur, s[i]), inDigits)
      ELSE <<cur>> \o SplitRuns(s, i + 1, <<s[i]>>, ~inDigits)

re_split_digits(s) == SplitRuns(s, 1, <<>>, FALSE)

\* A key component: an int ([isint |-> TRUE, v |-> n]) or a str
natural_key(s) ==
  LET parts == re_split_digits(s)
  IN  [i \in 1..Len(parts) |->
        IF isdigit(parts[i]) THEN [isint |-> TRUE, v |-> int(parts[i])]
                             ELSE [isint |-> FALSE, v |-> lower(parts[i])]]

\* Python's < on two key components.  Components at the same place of two
\* keys are of the same kind (text at odd places, int at even places).
CompLess(x, y) == IF x.isint THEN x.v < y.v ELSE StrLess(x.v, y.v)

\* Python's < on lists: the first differing place decides, a proper prefix
\* is smaller
ListLess(k1, k2) ==
  \E i \in 1..(Len(k1) + 1) :
    /\ \A j \in 1..(i - 1) : j <= Len(k2) /\ k1[j] = k2[j]
    /\ \/ i = Len(k1) + 1 /\ Len(k2) >= i
       \/ i <= Len(k1) /\ i <= Len(k2) /\ CompLess(k1[i], k2[i])

\* The places 1..n in sorted order, by insertion: place n goes in front of
\* the first place whose element is greater, so equal elements keep their
\* order.  less[i][j] is key(xs[i]) < key(xs[j]).
RECURSIVE SortedPlaces(_, _)
SortedPlaces(n, less) ==
  IF n = 0 THEN <<>>
  ELSE LET before == SortedPlaces(n - 1, less)
           at == CHOOSE k \in 1..n :
                   /\ \A m \in 1..(k - 1) : ~less[n][before[m]]
                   /\ k = n \/ less[n][before[k]]
       IN  SubSeq(before, 1, at - 1) \o <<n>> \o SubSeq(before, at, n - 1)

\* sorted(xs, key=...): stable
SortedBy(xs, less) ==
  LET places == SortedPlaces(Len(xs), less)
  IN  [p \in 1..Len(xs) |-> xs[places[p]]]

\* xs[:n], n of either sign
Slice(xs, n) ==
  IF n >= 0 THEN SubSeq(xs, 1, IF n < Len(xs) THEN n ELSE Len(xs))
            ELSE SubSeq(xs, 1, Len(xs) + n)

\* ------------------------------------------------------------ filter_names

\* rule.get(k): the value, or None (falsy) when the key is absent
RuleFlag(rule, k) == IF k \in DOMAIN rule THEN rule[k] ELSE FALSE

\* re.compile(rule['repo_regex']) raises
NameRuleRaises(rule) == "repo_regex" \in DOMAIN rule /\ ~re_compiles(rule["repo_regex"])

\* One iteration of filter_names' loop: regex.search, which is not anchored
NameRuleSearch(filtered, rule) ==
  IF "repo_regex" \in DOMAIN rule
    THEN LET Keep(n) == \E k \in 0..Len(n) : re_match(rule["repo_regex"], SubSeq(n, k + 1, Len(n)))
         IN  SelectSeq(filtered, Keep)
    ELSE filtered

\* One iteration of filter_names' loop
NameRule(filtered, rule) ==
  IF "repo_regex" \in DOMAIN rule
    THEN LET Keep(n) == re_match(rule["repo_regex"], n)
         IN  SelectSeq(filtered, Keep)
    ELSE filtered

RECURSIVE filter_names(_, _)
filter_names(names, filters) ==
  IF filters = <<>> THEN names
  ELSE filter_names(NameRule(names, Head(filters)), Tail(filters))

filter_names_raises(filters) == \E i \in 1..Len(filters) : NameRuleRaises(filters[i])

\* ------------------------------------------------------------ filter_tags

LATEST == <<"l", "a", "t", "e", "s", "t">>

\* tag_sort_key: (0,) for "latest", else (1, key with its ints negated)
tag_sort_key(t) ==
  IF t.name = LATEST
    THEN [rank |-> 0, key |-> <<>>]
    ELSE [rank |-> 1,
          key |-> LET k == natural_key(t.name)
                  IN  [i \in 1..Len(k) |->
                        IF k[i].isint THEN [isint |-> TRUE, v |-> 0 - k[i].v] ELSE k[i]]]

\* Python's < on the tuples tag_sort_key returns
SortKeyLess(a, b) ==
  \/ a.rank < b.rank
  \/ a.rank = 1 /\ b.rank = 1 /\ ListLess(a.key, b.key)

\* key(ts[i]) < key(ts[j]) for key=tag_sort_key
TagSortLess(ts) ==
  [i \in 1..Len(ts) |-> [j \in 1..Len(ts) |->
    SortKeyLess(tag_sort_key(ts[i]), tag_sort_key(ts[j]))]]

\* the regex retention, skipped for an empty pattern
ApplyTagRegex(filtered, rule) ==
  IF rule["tag_regex"] # <<>>
    THEN LET Keep(t) == re_match(rule["tag_regex"], t.name)
         IN  SelectSeq(filtered, Keep)
    ELSE filtered

ApplyBlacklist(filtered, rule) ==
  IF "blacklist" \in DOMAIN rule
    THEN LET Keep(t) == t.name \notin rule["blacklist"]
         IN  SelectSeq(filtered, Keep)
    ELSE filtered

ApplyKeepLatestN(filtered, rule) ==
  IF "keep_latest_n" \in DOMAIN rule
    THEN Slice(SortedBy(filtered, TagSortLess(filtered)), rule["keep_latest_n"])
    ELSE filtered

\* the tag_regex branch with the truncation ahead of the blacklist
TagRegexRuleTruncFirst(filtered, rule) ==
  ApplyBlacklist(ApplyKeepLatestN(ApplyTagRegex(filtered, rule), rule), rule)

\* the tag_regex branch of the loop body
TagRegexRule(filtered, rule) ==
  ApplyKeepLatestN(ApplyBlacklist(ApplyTagRegex(filtered, rule), rule), rule)

\* max(xs, key=last_updated) of a non-empty list: the first maximal element
RECURSIVE MaxScan(_, _, _)
MaxScan(xs, i, best) ==
  IF i > Len(xs) THEN best
  ELSE MaxScan(xs, i + 1, IF xs[i].last_updated > best.last_updated THEN xs[i] ELSE best)

\* a max scan that keeps the last maximal element
RECURSIVE MaxScanLast(_, _, _)
MaxScanLast(xs, i, best) ==
  IF i > Len(xs) THEN best
  ELSE MaxScanLast(xs, i + 1, IF xs[i].last_updated >= best.last_updated THEN xs[i] ELSE best)

KeepMostRecentLast(filtered) ==
  IF filtered # <<>> THEN <<MaxScanLast(filtered, 2, filtered[1])>> ELSE filtered

KeepMostRecent(filtered) ==
  IF filtered # <<>> THEN <<MaxScan(filtered, 2, filtered[1])>> ELSE filtered

\* re.compile(rule['tag_regex']) raises (an empty pattern is not compiled)
TagRuleRaises(rule) ==
  "tag_regex" \in DOMAIN rule /\ rule["tag_regex"] # <<>> /\ ~re_compiles(rule["tag_regex"])

\* One iteration of filter_tags' loop
TagRule(filtered, rule) ==
  IF "tag_regex" \in DOMAIN rule THEN TagRegexRule(filtered, rule)
  ELSE IF RuleFlag(rule, "keep_most_recent") THEN KeepMostRecent(filtered)
  ELSE filtered

RECURSIVE filter_tags(_, _)
filter_tags(tags, filters) ==
  IF filters = <<>> THEN tags
  ELSE filter_tags(TagRule(tags, Head(filters)), Tail(filters))

filter_tags_raises(filters) == \E i \in 1..Len(filters) : TagRuleRaises(filters[i])

TagNamesOf(ts) == [i \in 1..Len(ts) |-> ts[i].name]

NaturalLess(a, b) == ListLess(natural_key(a), natural_key(b))
\* key(ns[i]) < key(ns[j]) for key=natural_key, and the same under reverse=True
NaturalLessIn(ns) == [i \in 1..Len(ns) |-> [j \in 1..Len(ns) |-> NaturalLess(ns[i], ns[j])]]
NaturalGreaterIn(ns) == [i \in 1..Len(ns) |-> [j \in 1..Len(ns) |-> NaturalLess(ns[j], ns[i])]]

\* sorted(tag_names, key=natural_key), without reverse=True
SortTagNamesAscending(tag_names) == SortedBy(tag_names, NaturalLessIn(tag_names))

\* sorted(tag_names, key=natural_key, reverse=True)
SortTagNames(tag_names) == SortedBy(tag_names, NaturalGreaterIn(tag_names))

\* ------------------------------------------------------------ inputs

\* the lists over S of at most n elements, and those without repetition
SeqsUpTo(S, n) == UNION {[1..k -> S] : k \in 0..n}
DistinctSeqsUpTo(S, n) ==
  {s \in SeqsUpTo(S, n) : \A i, j \in 1..Len(s) : s[i] = s[j] => i = j}

\* repository names a namespace may hold (unique within a namespace)
RepoNameUniverse == {<<"x">>, <<"x", "y">>, <<"y">>, <<"a", "x">>}

NameRuleUniverse ==
  { [repo_regex |-> <<"x">>],
    [repo_regex |-> <<"^", ".", "$">>],
    [repo_regex |-> <<".", "y">>],
    [repo_regex |-> <<>>],
    [repo_regex |-> <<"(">>],
    [tag_regex |-> <<"v">>] }

\* tags a repository may hold (names are unique within a repository)
TagUniverse ==
  { [name |-> LATEST, last_updated |-> 2],
    [name |-> <<"v", "1">>, last_updated |-> 1],
    [name |-> <<"v", "1", "0">>, last_updated |-> 2],
    [name |-> <<"V", "1">>, last_updated |-> 1],
    [name |-> <<"1", ".", "0">>, last_updated |-> 1] }

TagRuleUniverse ==
  { [tag_regex |-> <<>>, keep_latest_n |-> 2],
    [tag_regex |-> <<"v">>, blacklist |-> {<<"v", "1", "0">>}, keep_latest_n |-> 1],
    [keep_most_recent |-> TRUE],
    [blacklist |-> {LATEST}, keep_latest_n |-> 1],
    [tag_regex |-> <<>>, keep_latest_n |-> 0 - 1],
    [tag_regex |-> <<"v">>, keep_most_recent |-> TRUE] }

\* ------------------------------------------------------------ state

VARIABLES
  names, nfilters, nfiltered, nidx, npc,             \* a call of filter_names
  tags, filters, filtered, prev, idx, pc,            \* a call of filter_tags ...
  tag_names_sorted,                                  \* ... and main's sort of its result
  config,                \* config['repositories']
  mpc,                   \* where main is
  ci,                    \* how many entries of config['repositories'] are done
  filtered_repo_names,   \* of the entry being processed
  ri,                    \* how many of filtered_repo_names are done
  output, all_repos_output, software_output, unknown_software,
  fetches,               \* the requests sent to the registry, in order
  allowed_sorted, allowed_by_software,
  diagnostics            \* the software names reported, in order

nvars == <<names, nfilters, nfiltered, nidx, npc>>
tvars == <<tags, filters, filtered, prev, idx, pc, tag_names_sorted>>
mvars == <<config, mpc, ci, filtered_repo_names, ri, output, all_repos_output,
           software_output, unknown_software, fetches, allowed_sorted,
           allowed_by_software, diagnostics>>
vars == <<nvars, tvars, mvars>>

MainIdle ==
  /\ config = <<>> /\ mpc = "idle" /\ ci = 0 /\ filtered_repo_names = <<>> /\ ri = 0
  /\ output = <<>> /\ all_repos_output = <<>> /\ software_output = <<>>
  /\ unknown_software = {} /\ fetches = <<>> /\ allowed_sorted = <<>>
  /\ allowed_by_software = <<>> /\ diagnostics = <<>>

NamesIdle ==
  names = <<>> /\ nfilters = <<>> /\ nfiltered = <<>> /\ nidx = 0 /\ npc = "idle"

TagsIdle ==
  /\ tags = <<>> /\ filters = <<>> /\ filtered = <<>> /\ prev = <<>>
  /\ idx = 0 /\ pc = "idle" /\ tag_names_sorted = <<>>

\* ------------------------------------------------------------ filter_names, step by step

InitNames ==
  /\ names \in DistinctSeqsUpTo(RepoNameUniverse, MaxNames)
  /\ nfilters \in SeqsUpTo(NameRuleUniverse, MaxRules)
  /\ nfiltered = names
  /\ nidx = 0
  /\ npc = "loop"
  /\ TagsIdle
  /\ MainIdle

NamesRule ==
  /\ npc = "loop"
  /\ nidx < Len(nfilters)
  /\ ~NameRuleRaises(nfilters[nidx + 1])
  /\ nfiltered' = NameRule(nfiltered, nfilters[nidx + 1])
  /\ nidx' = nidx + 1
  /\ UNCHANGED <<names, nfilters, npc, tvars, mvars>>

NamesRaise ==
  /\ npc = "loop"
  /\ nidx < Len(nfilters)
  /\ NameRuleRaises(nfilters[nidx + 1])
  /\ npc' = "error"
  /\ UNCHANGED <<names, nfilters, nfiltered, nidx, tvars, mvars>>

NamesReturn ==
  /\ npc = "loop"
  /\ nidx = Len(nfilters)
  /\ npc' = "done"
  /\ UNCHANGED <<names, nfilters, nfiltered, nidx, tvars, mvars>>

NextNames == NamesRule \/ NamesRaise \/ NamesReturn

SpecNames == InitNames /\ [][NextNames]_vars

\* ------------------------------------------------------------ filter_tags, step by step

InitTags ==
  /\ tags \in DistinctSeqsUpTo(TagUniverse, MaxTags)
  /\ filters \in SeqsUpTo(TagRuleUniverse, MaxRules)
  /\ filtered = tags
  /\ prev = tags
  /\ idx = 0
  /\ pc = "loop"
  /\ tag_names_sorted = <<>>
  /\ NamesIdle
  /\ MainIdle

\* one iteration of the loop over the rules
TagsRule ==
  /\ pc = "loop"
  /\ idx < Len(filters)
  /\ ~TagRuleRaises(filters[idx + 1])
  /\ prev' = filtered
  /\ filtered' = TagRule(filtered, filters[idx + 1])
  /\ idx' = idx + 1
  /\ UNCHANGED <<tags, filters, pc, tag_names_sorted, nvars, mvars>>

\* the return, and main's descending sort of the names that are left
TagsSorted ==
  /\ pc = "loop"
  /\ idx = Len(filters)
  /\ tag_names_sorted' = SortTagNames(TagNamesOf(filtered))
  /\ pc' = "done"
  /\ UNCHANGED <<tags, filters, filtered, prev, idx, nvars, mvars>>

NextTags == TagsRule \/ TagsSorted

SpecTags == InitTags /\ [][NextTags]_vars

\* ------------------------------------------------------------ main

\* dict.get's default for a software without sort_order, or not declared
DefaultSortOrder == 999

\* config['software']
SoftwareSection ==
  << [name |-> "core", sort_order |-> 1, description |-> "Core images"],
     [name |-> "tools", sort_order |-> 5] >>

\* software_meta, keyed by name (a later entry of the same name wins)
KnownSoftware == {SoftwareSection[i].name : i \in 1..Len(SoftwareSection)}

SoftwareMeta(s) ==
  SoftwareSection[CHOOSE i \in 1..Len(SoftwareSection) :
    /\ SoftwareSection[i].name = s
    /\ \A j \in (i + 1)..Len(SoftwareSection) : SoftwareSection[j].name # s]

\* software_sortorder.get(s, 999)
SoftwareSortOrder(s) ==
  IF s \in KnownSoftware /\ "sort_order" \in DOMAIN SoftwareMeta(s)
    THEN SoftwareMeta(s).sort_order ELSE DefaultSortOrder

\* software_desc.get(s, '')
SoftwareDesc(s) ==
  IF s \in KnownSoftware /\ "description" \in DOMAIN SoftwareMeta(s)
    THEN SoftwareMeta(s).description ELSE ""

\* A dict is the sequence of its items in insertion order.
DictKeys(d) == [i \in 1..Len(d) |-> d[i].key]
DictHas(d, k) == \E i \in 1..Len(d) : d[i].key = k
DictGet(d, k) == d[CHOOSE i \in 1..Len(d) : d[i].key = k].val
DictSet(d, k, v) ==
  IF DictHas(d, k)
    THEN [i \in 1..Len(d) |-> IF d[i].key = k THEN [key |-> k, val |-> v] ELSE d[i]]
    ELSE Append(d, [key |-> k, val |-> v])

\* The registry, which answers every request, and the same way each time.
NamespaceUniverse == {<<"a">>, <<"a", "b">>}

fetch_all_repositories(namespace) ==
  IF namespace = <<"a">> THEN << <<"x">>, <<"y">> >> ELSE << <<"x">> >>

fetch_all_tags(namespace, repository) ==
  IF namespace = <<"a">> /\ repository = <<"x">>
    THEN << [name |-> <<"v", "1">>, last_updated |-> 1],
            [name |-> LATEST, last_updated |-> 2],
            [name |-> <<"v", "2">>, last_updated |-> 2] >>
  ELSE IF namespace = <<"a">>
    THEN << [name |-> <<"1", ".", "0">>, last_updated |-> 1],
            [name |-> <<"v", "1">>, last_updated |-> 2] >>
  ELSE << [name |-> <<"v", "2">>, last_updated |-> 1],
          [name |-> <<"v", "1", "0">>, last_updated |-> 1] >>

\* the 'filters' and 'software' a RepositoryConfig may hold
FiltersUniverse ==
  { <<>>,
    << [tag_regex |-> <<"v">>, keep_latest_n |-> 1] >>,
    << [repo_regex |-> <<"x">>], [keep_most_recent |-> TRUE] >>,
    << [repo_regex |-> <<"(">>] >>,
    << [repo_regex |-> <<"y">>], [tag_regex |-> <<"(">>] >> }

SoftwareListUniverse == { <<>>, <<"core">>, <<"tools", "extra">> }

RepositoryConfigUniverse ==
  [namespace : NamespaceUniverse, filters : FiltersUniverse, software : SoftwareListUniverse]

\* repo_filters and tag_filters of a RepositoryConfig
RepoFilters(repo_conf) ==
  LET Is(f) == "repo_regex" \in DOMAIN f IN SelectSeq(repo_conf.filters, Is)

TagFilters(repo_conf) ==
  LET Is(f) == \/ "tag_regex" \in DOMAIN f
               \/ RuleFlag(f, "keep_most_recent")
               \/ "keep_latest_n" \in DOMAIN f
  IN  SelectSeq(repo_conf.filters, Is)

\* the software of a RepositoryConfig that software_meta does not hold
UnknownOf(repo_conf) ==
  {repo_conf.software[i] : i \in 1..Len(repo_conf.software)} \ KnownSoftware

RepoKey(namespace, repository) == namespace \o <<"/">> \o repository

\* the tag names main stores for a repository
FilteredSortedTagNames(repo_conf, repository) ==
  LET fetched == fetch_all_tags(repo_conf.namespace, repository)
      tag_filters == TagFilters(repo_conf)
      filtered_tags == IF tag_filters # <<>> THEN filter_tags(fetched, tag_filters) ELSE fetched
  IN  SortTagNames(TagNamesOf(filtered_tags))

\* the grouping, for the declared software only
RECURSIVE GroupByKnownSoftware(_, _, _, _)
GroupByKnownSoftware(sw_out, software_list, repo_key, tag_names) ==
  IF software_list = <<>> THEN sw_out
  ELSE LET software == Head(software_list)
           group == IF DictHas(sw_out, software) THEN DictGet(sw_out, software) ELSE <<>>
       IN  GroupByKnownSoftware(
             IF software \in KnownSoftware
               THEN DictSet(sw_out, software, DictSet(group, repo_key, tag_names))
               ELSE sw_out,
             Tail(software_list), repo_key, tag_names)

\* for software in software_list: software_output[software][repo_key] = ...
RECURSIVE GroupBySoftware(_, _, _, _)
GroupBySoftware(sw_out, software_list, repo_key, tag_names) ==
  IF software_list = <<>> THEN sw_out
  ELSE LET software == Head(software_list)
           group == IF DictHas(sw_out, software) THEN DictGet(sw_out, software) ELSE <<>>
       IN  GroupBySoftware(DictSet(sw_out, software, DictSet(group, repo_key, tag_names)),
                           Tail(software_list), repo_key, tag_names)

\* the inner loop over one RepositoryConfig's software: st.found, and the
\* least sort order so far in st.order
RECURSIVE SoftwareScan(_, _, _, _)
SoftwareScan(repo_key, repo_conf, j, st) ==
  IF j > Len(repo_conf.software) THEN st
  ELSE LET sorder == SoftwareSortOrder(repo_conf.software[j])
       IN  IF startswith(repo_key, repo_conf.namespace)
             THEN SoftwareScan(repo_key, repo_conf, j + 1,
                    [found |-> TRUE,
                     order |-> IF ~st.found \/ sorder < st.order THEN sorder ELSE st.order])
             ELSE SoftwareScan(repo_key, repo_conf, j + 1, st)

RECURSIVE ConfScan(_, _, _)
ConfScan(confs, repo_key, i) ==
  IF i > Len(confs) THEN DefaultSortOrder
  ELSE LET st == SoftwareScan(repo_key, confs[i], 1, [found |-> FALSE, order |-> DefaultSortOrder])
       IN  IF st.found THEN st.order ELSE ConfScan(confs, repo_key, i + 1)

\* the scan with the namespace compared to the key's part before the "/"
RECURSIVE ConfScanOwn(_, _, _)
ConfScanOwn(confs, repo_key, i) ==
  IF i > Len(confs) THEN DefaultSortOrder
  ELSE IF startswith(repo_key, confs[i].namespace \o <<"/">>)
    THEN LET st == SoftwareScan(repo_key, confs[i], 1, [found |-> FALSE, order |-> DefaultSortOrder])
         IN  IF st.found THEN st.order ELSE ConfScanOwn(confs, repo_key, i + 1)
    ELSE ConfScanOwn(confs, repo_key, i + 1)

RepoSortOrderOwnNamespace(confs, repo_key) == ConfScanOwn(confs, repo_key, 1)

\* repo_sortorder[repo_key]
RepoSortOrder(confs, repo_key) == ConfScan(confs, repo_key, 1)

\* allowed_sorted: output's items, stably sorted by repo_sortorder
AllowedSorted(confs, out) ==
  SortedBy(out, [i \in 1..Len(out) |-> [j \in 1..Len(out) |->
    RepoSortOrder(confs, out[i].key) < RepoSortOrder(confs, out[j].key)]])

\* allowed_by_software: a group for each key of software_output, stably
\* sorted by the software's sort order
AllowedBySoftware(sw_out) ==
  LET sorted_software ==
        SortedBy(sw_out, [i \in 1..Len(sw_out) |-> [j \in 1..Len(sw_out) |->
          SoftwareSortOrder(sw_out[i].key) < SoftwareSortOrder(sw_out[j].key)]])
  IN  [i \in 1..Len(sorted_software) |->
        [key |-> sorted_software[i].key,
         description |-> SoftwareDesc(sorted_software[i].key),
         repos |-> sorted_software[i].val]]

Init ==
  /\ config \in SeqsUpTo(RepositoryConfigUniverse, MaxConfs)
  /\ mpc = "conf"
  /\ ci = 0
  /\ filtered_repo_names = <<>>
  /\ ri = 0
  /\ output = <<>>
  /\ all_repos_output = <<>>
  /\ software_output = <<>>
  /\ unknown_software = {}
  /\ fetches = <<>>
  /\ allowed_sorted = <<>>
  /\ allowed_by_software = <<>>
  /\ diagnostics = <<>>
  /\ NamesIdle
  /\ TagsIdle

\* The head of the loop over config['repositories'], up to filter_names:
\* the unknown software is collected and the repositories are fetched
\* before any repo_regex is compiled.
ConfHead(repo_conf) ==
  /\ unknown_software' = unknown_software \cup UnknownOf(repo_conf)
  /\ fetches' = Append(fetches, <<"repositories", repo_conf.namespace>>)
  /\ all_repos_output' =
       DictSet(all_repos_output, repo_conf.namespace, fetch_all_repositories(repo_conf.namespace))

BeginConf ==
  LET repo_conf == config[ci + 1]
      repo_names == fetch_all_repositories(repo_conf.namespace)
      repo_filters == RepoFilters(repo_conf)
      kept == IF repo_filters # <<>> THEN filter_names(repo_names, repo_filters) ELSE repo_names
  IN  /\ mpc = "conf"
      /\ ci < Len(config)
      /\ ~filter_names_raises(repo_filters)
      /\ ConfHead(repo_conf)
      /\ filtered_repo_names' = kept
      /\ ri' = 0
      /\ ci' = IF kept = <<>> THEN ci + 1 ELSE ci
      /\ mpc' = IF kept = <<>> THEN "conf" ELSE "repos"
      /\ UNCHANGED <<config, output, software_output, allowed_sorted,
                     allowed_by_software, diagnostics, nvars, tvars>>

\* re.compile raises in filter_names: main ends with the exception
BeginConfRaises ==
  LET repo_conf == config[ci + 1]
  IN  /\ mpc = "conf"
      /\ ci < Len(config)
      /\ filter_names_raises(RepoFilters(repo_conf))
      /\ ConfHead(repo_conf)
      /\ mpc' = "error"
      /\ UNCHANGED <<config, ci, filtered_repo_names, ri, output, software_output,
                     allowed_sorted, allowed_by_software, diagnostics, nvars, tvars>>

\* One iteration of the loop over filtered_repo_names
ProcessRepo ==
  LET repo_conf == config[ci + 1]
      repository == filtered_repo_names[ri + 1]
      repo_key == RepoKey(repo_conf.namespace, repository)
      tag_names_now == FilteredSortedTagNames(repo_conf, repository)
      last == ri + 1 = Len(filtered_repo_names)
  IN  /\ mpc = "repos"
      /\ ~filter_tags_raises(TagFilters(repo_conf))
      /\ fetches' = Append(fetches, <<"tags", repo_conf.namespace, repository>>)
      /\ output' = DictSet(output, repo_key, tag_names_now)
      /\ software_output' =
           GroupBySoftware(software_output, repo_conf.software, repo_key, tag_names_now)
      /\ ri' = ri + 1
      /\ ci' = IF last THEN ci + 1 ELSE ci
      /\ mpc' = IF last THEN "conf" ELSE "repos"
      /\ UNCHANGED <<config, filtered_repo_names, all_repos_output, unknown_software,
                     allowed_sorted, allowed_by_software, diagnostics, nvars, tvars>>

\* re.compile raises in filter_tags, after the repository's tags were fetched
ProcessRepoRaises ==
  LET repo_conf == config[ci + 1]
      repository == filtered_repo_names[ri + 1]
  IN  /\ mpc = "repos"
      /\ filter_tags_raises(TagFilters(repo_conf))
      /\ fetches' = Append(fetches, <<"tags", repo_conf.namespace, repository>>)
      /\ mpc' = "error"
      /\ UNCHANGED <<config, ci, filtered_repo_names, ri, output, all_repos_output,
                     software_output, unknown_software, allowed_sorted,
                     allowed_by_software, diagnostics, nvars, tvars>>

\* After the loop: the three documents
WriteOutputs ==
  /\ mpc = "conf"
  /\ ci = Len(config)
  /\ allowed_sorted' = AllowedSorted(config, output)
  /\ allowed_by_software' = AllowedBySoftware(software_output)
  /\ mpc' = IF unknown_software # {} THEN "report" ELSE "done"
  /\ UNCHANGED <<config, ci, filtered_repo_names, ri, output, all_repos_output,
                 software_output, unknown_software, fetches, diagnostics, nvars, tvars>>

\* The report of the unknown software, one per element of the set, in the
\* set's iteration order
ReportUnknown ==
  /\ mpc = "report"
  /\ diagnostics' \in {d \in DistinctSeqsUpTo(unknown_software, Cardinality(unknown_software)) :
                         Len(d) = Cardinality(unknown_software)}
  /\ mpc' = "done"
  /\ UNCHANGED <<config, ci, filtered_repo_names, ri, output, all_repos_output,
                 software_output, unknown_software, fetches, allowed_sorted,
                 allowed_by_software, nvars, tvars>>

Next ==
  \/ BeginConf
  \/ BeginConfRaises
  \/ ProcessRepo
  \/ ProcessRepoRaises
  \/ WriteOutputs
  \/ ReportUnknown

Spec == Init /\ [][Next]_vars

\* ------------------------------------------------------------ properties of filter_names

\* how often x occurs in the sequence d
CountIn(d, x) == Cardinality({i \in 1..Len(d) : d[i] = x})

\* n is prefix-matched by every repo_regex rule of fs
MatchedByAll(n, fs) ==
  \A i \in 1..Len(fs) : "repo_regex" \in DOMAIN fs[i] => re_match(fs[i]["repo_regex"], n)

\* C8: filter_names returns the names, in input order, that every repo_regex
\* rule prefix-matches (so the order of the rules does not matter), and the
\* input itself for an empty rule list.
C8_FilterNamesIntersection ==
  npc = "done" =>
    /\ LET Keep(n) == MatchedByAll(n, nfilters) IN nfiltered = SelectSeq(names, Keep)
    /\ nfilters = <<>> => nfiltered = names

\* two rules, each of which alone removes a name the other keeps
C8_Witness ==
  /\ npc = "done"
  /\ Len(nfilters) = 2
  /\ nfiltered # <<>>
  /\ Len(NameRule(names, nfilters[1])) < Len(names)
  /\ Len(nfiltered) < Len(NameRule(names, nfilters[1]))
  /\ Len(nfiltered) < Len(NameRule(names, nfilters[2]))

\* ------------------------------------------------------------ properties of filter_tags

HasKeepLatestN(rule) == "tag_regex" \in DOMAIN rule /\ "keep_latest_n" \in DOMAIN rule

IsKeepMostRecent(rule) == "tag_regex" \notin DOMAIN rule /\ RuleFlag(rule, "keep_most_recent")

\* what the regex and the blacklist of a tag_regex rule leave of ts
Retained(ts, rule) ==
  LET Keep(t) ==
        /\ rule["tag_regex"] = <<>> \/ re_match(rule["tag_regex"], t.name)
        /\ "blacklist" \in DOMAIN rule => t.name \notin rule["blacklist"]
  IN  SelectSeq(ts, Keep)

Bijections(n) == {f \in [1..n -> 1..n] : \A i, j \in 1..n : f[i] = f[j] => i = j}

\* "latest" first, then descending natural order
ReferenceOrdered(ts) ==
  \A i, j \in 1..Len(ts) : i < j =>
    /\ ts[j].name = LATEST => ts[i].name = LATEST
    /\ (ts[i].name # LATEST /\ ts[j].name # LATEST) => ~NaturalLess(ts[i].name, ts[j].name)

\* C1: the keepLatestN clause returns the first n entries of the reference
\* ordering of the list it is applied to ("latest" first, the rest in
\* descending natural order, text components included), for every n >= 0.
C1_KeepLatestNReferenceOrder ==
  (idx > 0 /\ HasKeepLatestN(filters[idx]) /\ filters[idx]["keep_latest_n"] >= 0) =>
    LET work == Retained(prev, filters[idx])
        n == filters[idx]["keep_latest_n"]
    IN  \E f \in Bijections(Len(work)) :
          LET ordered == [i \in 1..Len(work) |-> work[f[i]]]
          IN  ReferenceOrdered(ordered) /\ filtered = Slice(ordered, n)

\* the step the spec gives a rule
RefStep(ts, rule) ==
  IF "tag_regex" \in DOMAIN rule
    THEN IF "keep_latest_n" \in DOMAIN rule
           THEN LET kept == Retained(ts, rule)
                IN  Slice(SortedBy(kept, TagSortLess(kept)), rule["keep_latest_n"])
           ELSE Retained(ts, rule)
    ELSE IF RuleFlag(rule, "keep_most_recent") THEN KeepMostRecent(ts) ELSE ts

\* step(rk, ... step(r1, ts))
RECURSIVE ComposeRef(_, _)
ComposeRef(ts, rules) ==
  IF rules = <<>> THEN ts
  ELSE RefStep(ComposeRef(ts, SubSeq(rules, 1, Len(rules) - 1)), rules[Len(rules)])

\* C6: filter_tags is the left-to-right composition of its rules' steps; a
\* tag_regex rule retains by regex (unless the pattern is empty), then removes
\* the blacklisted names, then truncates, so that the n slots go to retained
\* tags only; blacklist and keep_latest_n without tag_regex change nothing.
C6_TagRulesCompose ==
  /\ pc = "done" => filtered = ComposeRef(tags, filters)
  /\ (idx > 0 /\ HasKeepLatestN(filters[idx]) /\ filters[idx]["keep_latest_n"] >= 0) =>
       LET kept == Retained(prev, filters[idx])
           n == filters[idx]["keep_latest_n"]
       IN  /\ Len(filtered) = (IF n < Len(kept) THEN n ELSE Len(kept))
           /\ \A i \in 1..Len(filtered) : \E j \in 1..Len(kept) : kept[j] = filtered[i]
  /\ (idx > 0 /\ "tag_regex" \notin DOMAIN filters[idx]
            /\ ~RuleFlag(filters[idx], "keep_most_recent")) => filtered = prev

\* a blacklist and keep_latest_n without tag_regex that would have bitten,
\* then a rule whose regex and blacklist both bite and whose one slot would
\* have gone to the blacklisted tag
C6_Witness ==
  /\ pc = "done"
  /\ idx = 2
  /\ "tag_regex" \notin DOMAIN filters[1]
  /\ "blacklist" \in DOMAIN filters[1]
  /\ \E i \in 1..Len(tags) : tags[i].name \in filters[1]["blacklist"]
  /\ Len(tags) > filters[1]["keep_latest_n"]
  /\ {"tag_regex", "blacklist", "keep_latest_n"} \subseteq DOMAIN filters[2]
  /\ Len(ApplyTagRegex(prev, filters[2])) < Len(prev)
  /\ Len(Retained(prev, filters[2])) < Len(ApplyTagRegex(prev, filters[2]))
  /\ filtered # <<>>
  /\ filtered # Slice(SortedBy(ApplyTagRegex(prev, filters[2]),
                               TagSortLess(ApplyTagRegex(prev, filters[2]))),
                      filters[2]["keep_latest_n"])

\* C7: keep_most_recent reduces a non-empty working list to the one tag with
\* the greatest last_updated, the first such in input order, and leaves an
\* empty list empty.
C7_KeepMostRecentFirstMax ==
  (idx > 0 /\ IsKeepMostRecent(filters[idx])) =>
    IF prev = <<>> THEN filtered = <<>>
    ELSE /\ Len(filtered) = 1
         /\ \E i \in 1..Len(prev) :
              /\ filtered[1] = prev[i]
              /\ \A j \in 1..Len(prev) : prev[j].last_updated <= prev[i].last_updated
              /\ \A j \in 1..(i - 1) : prev[j].last_updated < prev[i].last_updated

\* several tags share the greatest last_updated, after a smaller one
C7_Witness ==
  /\ idx > 0 /\ IsKeepMostRecent(filters[idx])
  /\ \E i, j, k \in 1..Len(prev) :
       /\ i < j /\ j < k
       /\ prev[i].last_updated < prev[j].last_updated
       /\ prev[j].last_updated = prev[k].last_updated
       /\ filtered = <<prev[j]>>

\* a keep_most_recent mixed with a tag_regex family clause, or a negative
\* keep_latest_n
InvalidTagRule(rule) ==
  \/ /\ RuleFlag(rule, "keep_most_recent")
     /\ DOMAIN rule \cap {"tag_regex", "blacklist", "keep_latest_n"} # {}
  \/ "keep_latest_n" \in DOMAIN rule /\ rule["keep_latest_n"] < 0

\* C4: a rule list holding an invalid tag rule is rejected: it never yields
\* a filtered tag list.
C4_InvalidTagRuleRejected ==
  pc = "done" => \A i \in 1..Len(filters) : ~InvalidTagRule(filters[i])

LastStepKeepsLatestN ==
  pc = "done" /\ idx > 0 /\ HasKeepLatestN(filters[idx]) /\ filters[idx]["keep_latest_n"] >= 0

\* C9: after a keepLatestN truncation as last step, main's final sort leaves
\* the names in the order keepLatestN produced.
C9_FinalSortIsNoOp ==
  LastStepKeepsLatestN => tag_names_sorted = TagNamesOf(filtered)

\* the keys of all names agree on their text components
SameTextComponents(ns) ==
  \A i, j \in 1..Len(ns) :
    LET a == natural_key(ns[i])
        b == natural_key(ns[j])
    IN  Len(a) = Len(b) /\ \A k \in 1..Len(a) : ~a[k].isint => a[k] = b[k]

\* C9, amended: the final sort puts the names keepLatestN kept into
\* non-increasing natural_key order, text components included and "latest"
\* not set apart; it leaves keepLatestN's order alone when the keys of the
\* names differ in numeric components only.
C9_FinalSortReorders ==
  LastStepKeepsLatestN =>
    LET ns == TagNamesOf(filtered) IN
    /\ Len(tag_names_sorted) = Len(ns)
    /\ \A i \in 1..Len(ns) : CountIn(tag_names_sorted, ns[i]) = CountIn(ns, ns[i])
    /\ \A i, j \in 1..Len(tag_names_sorted) :
         i < j => ~NaturalLess(tag_names_sorted[i], tag_names_sorted[j])
    /\ SameTextComponents(ns) => tag_names_sorted = ns

\* keepLatestN kept "latest" ahead of a name that sorts above it
C9_Witness ==
  /\ LastStepKeepsLatestN
  /\ Len(filtered) = 2
  /\ filtered[1].name = LATEST
  /\ tag_names_sorted = <<filtered[2].name, LATEST>>

\* ------------------------------------------------------------ properties of main

Finished == mpc = "done"

Range(f) == {f[i] : i \in DOMAIN f}

MinOf(S) == CHOOSE m \in S : \A n \in S : m <= n

\* the repository keys a RepositoryConfig constructs
ProducedRepos(repo_conf) ==
  LET Keep(n) == MatchedByAll(n, RepoFilters(repo_conf))
  IN  Range(SelectSeq(fetch_all_repositories(repo_conf.namespace), Keep))

ProducedKeys(repo_conf) ==
  {RepoKey(repo_conf.namespace, r) : r \in ProducedRepos(repo_conf)}

\* the last RepositoryConfig to construct the key k
LastProducer(k) ==
  CHOOSE i \in 1..Len(config) :
    /\ k \in ProducedKeys(config[i])
    /\ \A j \in (i + 1)..Len(config) : k \notin ProducedKeys(config[j])

\* the repository part of a key of the namespace ns
RepositoryOf(k, ns) == SubSeq(k, Len(ns) + 2, Len(k))

HasMalformedRegex(confs) ==
  \E i \in 1..Len(confs) : \E j \in 1..Len(confs[i].filters) :
    LET rule == confs[i].filters[j]
    IN  \/ "repo_regex" \in DOMAIN rule /\ ~re_compiles(rule["repo_regex"])
        \/ "tag_regex" \in DOMAIN rule /\ ~re_compiles(rule["tag_regex"])

\* C3: a run whose config holds a malformed regex fails, and sends no
\* request to the registry before it does.
C3_MalformedRegexFailsBeforeFetch ==
  HasMalformedRegex(config) => (fetches = <<>> /\ mpc \notin {"report", "done"})

\* the place of the key k in the dict d
PlaceIn(d, k) == CHOOSE i \in 1..Len(d) : d[i].key = k

\* the items of out, ordered by Order, those of equal Order as in out
StablySortedBy(sorted, out, Order(_)) ==
  /\ Len(sorted) = Len(out)
  /\ \A i \in 1..Len(sorted) : \E j \in 1..Len(out) : sorted[i] = out[j]
  /\ \A i, j \in 1..Len(sorted) : i < j =>
       \/ Order(sorted[i].key) < Order(sorted[j].key)
       \/ /\ Order(sorted[i].key) = Order(sorted[j].key)
          /\ PlaceIn(out, sorted[i].key) < PlaceIn(out, sorted[j].key)

SortOrdersOf(repo_conf) ==
  {SoftwareSortOrder(repo_conf.software[j]) : j \in 1..Len(repo_conf.software)}

NamespaceOf(k) == SubSeq(k, 1, (CHOOSE i \in 1..Len(k) : k[i] = "/") - 1)

\* the least sort order of the software declared for the key's own namespace
OwnNamespaceOrder(k) ==
  LET orders == UNION {SortOrdersOf(config[i]) :
                         i \in {j \in 1..Len(config) : config[j].namespace = NamespaceOf(k)}}
  IN  IF orders = {} THEN DefaultSortOrder ELSE MinOf(orders)

\* the RepositoryConfigs that declare software and whose namespace the key
\* starts with
PrefixMatches(k) ==
  {i \in 1..Len(config) : startswith(k, config[i].namespace) /\ config[i].software # <<>>}

\* the least sort order of the software of the first of them
FirstMatchOrder(k) ==
  IF PrefixMatches(k) = {} THEN DefaultSortOrder
  ELSE MinOf(SortOrdersOf(config[MinOf(PrefixMatches(k))]))

\* C5: the keys of AllowedRepos are in non-decreasing order of the least
\* sort order of the software declared for the namespace that produced the
\* key (999 without known software), ties in construction order, also when
\* a namespace is a prefix of another.
C5_AllowedSortedByOwnNamespace ==
  Finished => StablySortedBy(allowed_sorted, output, OwnNamespaceOrder)

\* C5, amended: the keys of AllowedRepos are in non-decreasing order of the
\* least sort order (default 999) of the software of the first
\* RepositoryConfig, in config order, that declares software and whose
\* namespace string the key starts with (999 if there is none), ties in
\* construction order.
C5_AllowedSortedByFirstPrefixMatch ==
  Finished => StablySortedBy(allowed_sorted, output, FirstMatchOrder)

\* a key of namespace "ab" takes the order of the earlier RepositoryConfig of
\* namespace "a", though its own namespace declares a smaller one
C5_Witness ==
  /\ Finished
  /\ \E n \in 1..Len(output) :
       LET k == output[n].key
       IN  /\ PrefixMatches(k) # {}
           /\ config[MinOf(PrefixMatches(k))].namespace # NamespaceOf(k)
           /\ OwnNamespaceOrder(k) < FirstMatchOrder(k)
           /\ \E m \in 1..Len(output) : FirstMatchOrder(output[m].key) = FirstMatchOrder(k) /\ m < n

\* C10: every tag list in a group of AllowedBySoftware equals the tag list
\* AllowedRepos holds for the same repository key.
C10_SoftwareGroupsMatchAllowedRepos ==
  Finished =>
    \A g \in 1..Len(allowed_by_software) :
      \A r \in 1..Len(allowed_by_software[g].repos) :
        LET item == allowed_by_software[g].repos[r]
        IN  DictHas(allowed_sorted, item.key) /\ DictGet(allowed_sorted, item.key) = item.val

====
